---- MODULE Spec2Model ----
(***************************************************************************)
(* Model of aws_reports/reserved_instance.py: the reconciliation of the    *)
(* running on-demand instances of one account against its active reserved  *)
(* instances, per (instance_type, region) key.                             *)
(*                                                                         *)
(* Python values are modelled as follows.                                  *)
(*   str            a sequence of one-character strings (so that slicing   *)
(*                  can be computed), wrapped by PyStr; None is PyNone     *)
(*   dict           a record [keys, val]: keys is the insertion order,     *)
(*                  val the mapping (a function on the set of keys)        *)
(*   defaultdict    a dict whose __getitem__ inserts the factory value     *)
(*   tuple (t, r)   <<t, r>>                                               *)
(***************************************************************************)
EXTENDS Integers, Sequences, FiniteSets, TLC

VARIABLES
    pc,                     \* position in the script
    acct_instances,         \* the account: every instance, grouped by reservation
    acct_reserved,          \* the account: every reserved-instances purchase
    session_region,         \* session.region_name
    reservations,           \* the response being iterated (lines 23 and 41)
    cursor,                 \* number of records of the response already iterated
    running_instances,      \* defaultdict(int)
    instance_mapping,       \* defaultdict(list)
    reserved_instances,     \* defaultdict(int)
    instance_diff,          \* dict
    unused_reservations,    \* dict
    unreserved_instances,   \* dict
    used_reservations,      \* dict
    qty_running_instances,
    qty_reserved_instances,
    stdout,                 \* the lines printed, in order
    stderr                  \* the lines written to sys.stderr, in order

\* Executions of reserved_instance.py for several profiles, each a process of its own
VARIABLES
    runs                    \* profile -> the names of that execution, as a record

\* aws_externally_exposed.py, process_profile
VARIABLES
    xp_pc,                  \* where the thread that runs process_profile is
    xp_regions,             \* regions: what get_regions returned
    xp_found,               \* per region of the list, what its fetches find
    xp_buckets,             \* the number of S3 rows get_exposed_s3_buckets returns
    xp_task,                \* per region of the list, the state of its call in the pool
    xp_future,              \* per region of the list, the result its call returned
    xp_finished,            \* the regions whose calls have ended, in the order they ended
    xp_collected,           \* the regions whose results were taken, in that order
    xp_data                 \* data: the profile's result list

\* aws_externally_exposed.py, get_exposed_network_acls
VARIABLES
    nacl_pc,                \* where the call is
    network_acls,           \* the Network ACLs of the region, each its list of entries
    nacl_fails,             \* whether describe_network_acls raises a ClientError
    nacl_at,                \* the Network ACL the loop of line 57 is at
    entry_at,               \* the entries of it the loop of line 60 has visited
    allow_rules,            \* cidr -> rule number of the allow entries visited
    deny_rules,             \* the cidrs of the deny entries visited
    nacl_results            \* results

\* s3_bucket_report.py, main and Spinner
VARIABLES
    main_pc,                \* where the main thread is
    s3_profiles,            \* per profile, how its processing ends
    profile_at,             \* the profile the loop of line 133 is at
    spinner_running,        \* spinner.running
    spinner_thread,         \* spinner.spinner_thread: "none" or "alive"
    spin_pc,                \* where the spinner thread is in spin
    char_at,                \* the char the loop of line 21 is at
    terminal,               \* what the spinner wrote to sys.stdout, in order
    stop_called             \* whether Spinner.stop has been entered

\* export_reserved_instances.py
VARIABLES
    exp_pc,                 \* where the script is
    exp_profiles,           \* per profile, what its lookups and its regions answer
    exp_at,                 \* the profile the loop of line 19 is at
    region_at,              \* the region the loop of line 41 is at
    exp_data,               \* data: the rows of the current profile
    all_data,               \* all_data
    sheets                  \* the sheets written to the workbook, in order

vars == <<pc, acct_instances, acct_reserved, session_region, reservations, cursor,
          running_instances, instance_mapping, reserved_instances, instance_diff,
          unused_reservations, unreserved_instances, used_reservations,
          qty_running_instances, qty_reserved_instances, stdout, stderr,
          runs,
          xp_pc, xp_regions, xp_found, xp_buckets, xp_task, xp_future, xp_finished,
          xp_collected, xp_data,
          nacl_pc, network_acls, nacl_fails, nacl_at, entry_at, allow_rules, deny_rules,
          nacl_results,
          main_pc, s3_profiles, profile_at, spinner_running, spinner_thread, spin_pc,
          char_at, terminal, stop_called,
          exp_pc, exp_profiles, exp_at, region_at, exp_data, all_data, sheets>>

\* the names of one execution of reserved_instance.py
script_vars ==
    <<pc, acct_instances, acct_reserved, session_region, reservations, cursor,
      running_instances, instance_mapping, reserved_instances, instance_diff,
      unused_reservations, unreserved_instances, used_reservations,
      qty_running_instances, qty_reserved_instances, stdout, stderr>>

\* what the steps of the single execution leave alone
exposed_vars ==
    <<xp_pc, xp_regions, xp_found, xp_buckets, xp_task, xp_future, xp_finished,
      xp_collected, xp_data>>

nacl_vars ==
    <<nacl_pc, network_acls, nacl_fails, nacl_at, entry_at, allow_rules, deny_rules,
      nacl_results>>

spinner_vars ==
    <<main_pc, s3_profiles, profile_at, spinner_running, spinner_thread, spin_pc,
      char_at, terminal, stop_called>>

export_vars == <<exp_pc, exp_profiles, exp_at, region_at, exp_data, all_data, sheets>>

other_scripts == <<runs, exposed_vars, nacl_vars, spinner_vars, export_vars>>

\* what a statement of one of the side-by-side executions leaves alone
not_runs == <<script_vars, exposed_vars, nacl_vars, spinner_vars, export_vars>>

\* what process_profile and its workers leave alone
not_exposed == <<script_vars, runs, nacl_vars, spinner_vars, export_vars>>

\* what get_exposed_network_acls leaves alone
not_nacl == <<script_vars, runs, exposed_vars, spinner_vars, export_vars>>

\* what main of s3_bucket_report.py and its spinner leave alone
not_spinner == <<script_vars, runs, exposed_vars, nacl_vars, export_vars>>

\* what export_reserved_instances.py leaves alone
not_export == <<script_vars, runs, exposed_vars, nacl_vars, spinner_vars>>

inputs == <<acct_instances, acct_reserved, session_region>>

----------------------------------------------------------------------------
(* Bounds of the model *)

MaxInstances == 2
MaxReserved == 2

----------------------------------------------------------------------------
(* Python values *)

PyNone == [isNone |-> TRUE, s |-> <<>>]
PyStr(s) == [isNone |-> FALSE, s |-> s]

\* s[:-1]
DropLast(s) == SubSeq(s, 1, Len(s) - 1)

EmptyDict == [keys |-> <<>>, val |-> <<>>]

\* k in d
Has(d, k) == k \in DOMAIN d.val

\* d[k] = v on a dict: a new key goes to the end of the insertion order
DictSet(d, k, v) ==
    IF Has(d, k)
    THEN [keys |-> d.keys, val |-> [d.val EXCEPT ![k] = v]]
    ELSE [keys |-> Append(d.keys, k),
          val |-> [x \in (DOMAIN d.val) \cup {k} |-> IF x = k THEN v ELSE d.val[x]]]

\* d.get called with a key the dict never holds: always the default
DictGetDefault(d, k, default) == [value |-> default, dict |-> d]

\* d.get replaced by a lookup that inserts the default when the key is missing
DictGetInserting(d, k, default) ==
    IF k \in DOMAIN d.val
    THEN [value |-> d.val[k], dict |-> d]
    ELSE [value |-> default,
          dict |-> [keys |-> Append(d.keys, k),
                    val |-> [x \in (DOMAIN d.val) \cup {k} |->
                               IF x = k THEN default ELSE d.val[x]]]]

\* d.get(k, default): the value read and the dict after the call (unchanged)
DictGet(d, k, default) ==
    [value |-> IF Has(d, k) THEN d.val[k] ELSE default, dict |-> d]

\* d[k] on a defaultdict with the given factory value: a missing key is inserted
DefaultGetItem(d, k, factory) ==
    IF Has(d, k)
    THEN [value |-> d.val[k], dict |-> d]
    ELSE [value |-> factory, dict |-> DictSet(d, k, factory)]

\* d.values(), in insertion order
Values(d) == [i \in 1..Len(d.keys) |-> d.val[d.keys[i]]]

RECURSIVE SumSeq(_)
\* sum(seq)
SumSeq(s) == IF s = <<>> THEN 0 ELSE s[1] + SumSeq(Tail(s))

RECURSIVE Join(_)
\* ', '.join(list)
Join(l) ==
    IF l = <<>> THEN ""
    ELSE IF Len(l) = 1 THEN l[1]
    ELSE l[1] \o ", " \o Join(Tail(l))

----------------------------------------------------------------------------
(* The inputs: what the account holds and what the two API calls return *)

AZ_r1a == <<"r", "1", "a">>
AZ_r1b == <<"r", "1", "b">>
AZ_r2a == <<"r", "2", "a">>
Region_r1 == <<"r", "1">>
Region_r2 == <<"r", "2">>
Unknown == <<"U", "n", "k", "n", "o", "w", "n">>

\* Instances of the account, before their ids are assigned: on-demand ones in two
\* regions, a spot one and a stopped one.
InstanceKinds ==
    { [InstanceType |-> "m5.large", AvailabilityZone |-> AZ_r1a, Spot |-> FALSE, State |-> "running"],
      [InstanceType |-> "m5.large", AvailabilityZone |-> AZ_r1a, Spot |-> TRUE,  State |-> "running"],
      [InstanceType |-> "t3.micro", AvailabilityZone |-> AZ_r2a, Spot |-> FALSE, State |-> "running"],
      [InstanceType |-> "m5.large", AvailabilityZone |-> AZ_r1a, Spot |-> FALSE, State |-> "stopped"] }

\* Reserved-instances purchases of the account: a zonal one, a regional one (no
\* AvailabilityZone), one with both an AvailabilityZone and Scope "Region", one with
\* an empty AvailabilityZone and no Scope, and one that is no longer active.
ReservedKinds ==
    { [InstanceType |-> "m5.large", HasAZ |-> TRUE,  AvailabilityZone |-> AZ_r1a, HasScope |-> TRUE,
       Scope |-> "Availability Zone", InstanceCount |-> 1, State |-> "active"],
      [InstanceType |-> "m5.large", HasAZ |-> FALSE, AvailabilityZone |-> <<>>,   HasScope |-> TRUE,
       Scope |-> "Region", InstanceCount |-> 2, State |-> "active"],
      [InstanceType |-> "m5.large", HasAZ |-> TRUE,  AvailabilityZone |-> AZ_r1b, HasScope |-> TRUE,
       Scope |-> "Region", InstanceCount |-> 1, State |-> "active"],
      [InstanceType |-> "t3.micro", HasAZ |-> TRUE,  AvailabilityZone |-> <<>>,   HasScope |-> FALSE,
       Scope |-> "", InstanceCount |-> 1, State |-> "active"],
      [InstanceType |-> "m5.large", HasAZ |-> TRUE,  AvailabilityZone |-> AZ_r1a, HasScope |-> TRUE,
       Scope |-> "Availability Zone", InstanceCount |-> 2, State |-> "retired"] }

\* session.region_name: the default region the profile is configured with
SessionRegions == {PyStr(Region_r1), PyStr(Region_r2)}

BoundedSeq(S, n) == UNION {[1..k -> S] : k \in 0..n}

\* The i-th instance of the account gets the id "i-<i>".
WithIds(flat) ==
    [i \in 1..Len(flat) |->
        [InstanceId |-> "i-" \o ToString(i),
         InstanceType |-> flat[i].InstanceType,
         AvailabilityZone |-> flat[i].AvailabilityZone,
         Spot |-> flat[i].Spot,
         State |-> flat[i].State]]

\* Two instances that differ in their ids only
SameLaunch(a, b) ==
    /\ a.InstanceType = b.InstanceType
    /\ a.AvailabilityZone = b.AvailabilityZone
    /\ a.Spot = b.Spot
    /\ a.State = b.State

RECURSIVE Grouped(_)
\* The instances as the reservations (launch groups) of the account: consecutive
\* instances that differ in their ids only were launched together.
Grouped(flat) ==
    IF flat = <<>> THEN <<>>
    ELSE LET rest == Grouped(Tail(flat))
         IN  IF rest # <<>> /\ SameLaunch(flat[1], rest[1].Instances[1])
             THEN << [Instances |-> <<flat[1]>> \o rest[1].Instances] >> \o Tail(rest)
             ELSE << [Instances |-> <<flat[1]>>] >> \o rest

RECURSIVE Flatten(_)
\* The instances of a response in the order the nested loops of lines 28-29 visit them.
Flatten(groups) ==
    IF groups = <<>> THEN <<>> ELSE groups[1].Instances \o Flatten(Tail(groups))

IsRunning(i) == i.State = "running"
IsActive(r) == r.State = "active"

RECURSIVE DescribeInstances(_)
\* describe_instances(Filters=[instance-state-name = running]): the reservations that
\* have a running instance, each with its running instances
DescribeInstances(groups) ==
    IF groups = <<>> THEN <<>>
    ELSE LET kept == SelectSeq(groups[1].Instances, IsRunning)
         IN  (IF kept = <<>> THEN <<>> ELSE << [Instances |-> kept] >>)
             \o DescribeInstances(Tail(groups))

\* describe_reserved_instances called without the state filter
DescribeReservedInstancesUnfiltered(purchases) == purchases

\* describe_reserved_instances(Filters=[state = active])
DescribeReservedInstances(purchases) == SelectSeq(purchases, IsActive)

----------------------------------------------------------------------------
(* The script *)

\* reserved_instance.py is not executed
ScriptIdle ==
    /\ pc = "off"
    /\ acct_instances = <<>>
    /\ acct_reserved = <<>>
    /\ session_region = PyNone
    /\ reservations = <<>>
    /\ cursor = 0
    /\ running_instances = EmptyDict
    /\ instance_mapping = EmptyDict
    /\ reserved_instances = EmptyDict
    /\ instance_diff = EmptyDict
    /\ unused_reservations = EmptyDict
    /\ unreserved_instances = EmptyDict
    /\ used_reservations = EmptyDict
    /\ qty_running_instances = 0
    /\ qty_reserved_instances = 0
    /\ stdout = <<>>
    /\ stderr = <<>>

\* no execution of reserved_instance.py side by side with another
RunsIdle == runs = <<>>

\* process_profile is not called
ExposedIdle ==
    /\ xp_pc = "off"
    /\ xp_regions = <<>>
    /\ xp_found = <<>>
    /\ xp_buckets = 0
    /\ xp_task = <<>>
    /\ xp_future = <<>>
    /\ xp_finished = <<>>
    /\ xp_collected = <<>>
    /\ xp_data = <<>>

\* get_exposed_network_acls is not called
NaclIdle ==
    /\ nacl_pc = "off"
    /\ network_acls = <<>>
    /\ nacl_fails = FALSE
    /\ nacl_at = 0
    /\ entry_at = 0
    /\ allow_rules = EmptyDict
    /\ deny_rules = {}
    /\ nacl_results = <<>>

\* s3_bucket_report.py is not executed
SpinnerIdle ==
    /\ main_pc = "off"
    /\ s3_profiles = <<>>
    /\ profile_at = 0
    /\ spinner_running = FALSE
    /\ spinner_thread = "none"
    /\ spin_pc = "unborn"
    /\ char_at = 0
    /\ terminal = <<>>
    /\ stop_called = FALSE

\* export_reserved_instances.py is not executed
ExportIdle ==
    /\ exp_pc = "off"
    /\ exp_profiles = <<>>
    /\ exp_at = 0
    /\ region_at = 0
    /\ exp_data = <<>>
    /\ all_data = <<>>
    /\ sheets = <<>>

Init ==
    /\ pc = "describe_instances"
    /\ acct_instances \in
         { Grouped(WithIds(flat)) : flat \in BoundedSeq(InstanceKinds, MaxInstances) }
    /\ acct_reserved \in BoundedSeq(ReservedKinds, MaxReserved)
    /\ session_region \in SessionRegions
    /\ reservations = <<>>
    /\ cursor = 0
    /\ running_instances = EmptyDict
    /\ instance_mapping = EmptyDict
    /\ reserved_instances = EmptyDict
    /\ instance_diff = EmptyDict
    /\ unused_reservations = EmptyDict
    /\ unreserved_instances = EmptyDict
    /\ used_reservations = EmptyDict
    /\ qty_running_instances = 0
    /\ qty_reserved_instances = 0
    /\ stdout = <<>>
    /\ stderr = <<>>
    /\ RunsIdle
    /\ ExposedIdle
    /\ NaclIdle
    /\ SpinnerIdle
    /\ ExportIdle

\* line 23, and lines 25-26
GetRunningInstances ==
    /\ pc = "describe_instances"
    /\ reservations' = DescribeInstances(acct_instances)
    /\ cursor' = 0
    /\ running_instances' = EmptyDict
    /\ instance_mapping' = EmptyDict
    /\ pc' = "count_running"
    /\ UNCHANGED <<other_scripts, inputs, reserved_instances, instance_diff, unused_reservations,
                   unreserved_instances, used_reservations, qty_running_instances,
                   qty_reserved_instances, stdout, stderr>>

\* the spot test left out: no instance is disqualified
IsSpotNever(instance) == FALSE

\* "SpotInstanceRequestId" in instance
IsSpot(instance) == instance.Spot

\* lines 33-34: the key of a running instance
PlacementKey(instance) ==
    <<instance.InstanceType, PyStr(DropLast(instance.AvailabilityZone))>>

\* the key looked up in running_instances but not incremented
CountInstanceTouched(d, key) == DefaultGetItem(d, key, 0).dict

\* line 36: running_instances[key] += 1
CountInstance(d, key) ==
    LET got == DefaultGetItem(d, key, 0)
    IN  DictSet(got.dict, key, got.value + 1)

\* the id put at the front of the list of its key
MapInstanceAtFront(d, key, id) ==
    LET got == DefaultGetItem(d, key, <<>>)
    IN  DictSet(got.dict, key, <<id>> \o got.value)

\* line 37: instance_mapping[key].append(id)
MapInstance(d, key, id) ==
    LET got == DefaultGetItem(d, key, <<>>)
    IN  DictSet(got.dict, key, Append(got.value, id))

\* lines 28-37, one iteration of the inner loop
CountRunning ==
    /\ pc = "count_running"
    /\ cursor < Len(Flatten(reservations))
    /\ LET instance == Flatten(reservations)[cursor + 1]
       IN  IF IsSpot(instance)
           THEN /\ stderr' = Append(stderr, [disqualified |-> instance.InstanceId, why |-> "spot"])
                /\ UNCHANGED <<running_instances, instance_mapping>>
           ELSE /\ running_instances' = CountInstance(running_instances, PlacementKey(instance))
                /\ instance_mapping' =
                     MapInstance(instance_mapping, PlacementKey(instance), instance.InstanceId)
                /\ UNCHANGED stderr
    /\ cursor' = cursor + 1
    /\ UNCHANGED <<other_scripts, pc, inputs, reservations, reserved_instances, instance_diff,
                   unused_reservations, unreserved_instances, used_reservations,
                   qty_running_instances, qty_reserved_instances, stdout>>

\* lines 40-41, after the loop of line 28 has ended
GetReservedInstances ==
    /\ pc = "count_running"
    /\ cursor = Len(Flatten(reservations))
    /\ reserved_instances' = EmptyDict
    /\ reservations' = DescribeReservedInstances(acct_reserved)
    /\ cursor' = 0
    /\ pc' = "count_reserved"
    /\ UNCHANGED <<other_scripts, inputs, running_instances, instance_mapping, instance_diff,
                   unused_reservations, unreserved_instances, used_reservations,
                   qty_running_instances, qty_reserved_instances, stdout, stderr>>

\* the Scope test made before the AvailabilityZone test
ReservedRegionScopeFirst(reserved_instance, region_name) ==
    IF reserved_instance.HasScope /\ reserved_instance.Scope = "Region"
    THEN region_name
    ELSE IF reserved_instance.HasAZ /\ reserved_instance.AvailabilityZone # <<>>
    THEN PyStr(DropLast(reserved_instance.AvailabilityZone))
    ELSE PyStr(Unknown)

\* lines 47-52: the region of a reserved instance
ReservedRegion(reserved_instance, region_name) ==
    IF reserved_instance.HasAZ /\ reserved_instance.AvailabilityZone # <<>>
    THEN PyStr(DropLast(reserved_instance.AvailabilityZone))
    ELSE IF reserved_instance.HasScope /\ reserved_instance.Scope = "Region"
    THEN region_name
    ELSE PyStr(Unknown)

\* one counted per reservation record, whatever its InstanceCount
CountReservedRecords(d, key, count) ==
    LET got == DefaultGetItem(d, key, 0)
    IN  DictSet(got.dict, key, got.value + 1)

\* line 54: reserved_instances[key] += InstanceCount
CountReserved(d, key, count) ==
    LET got == DefaultGetItem(d, key, 0)
    IN  DictSet(got.dict, key, got.value + count)

\* lines 43-54, one iteration
CountReservedInstance ==
    /\ pc = "count_reserved"
    /\ cursor < Len(reservations)
    /\ LET reserved_instance == reservations[cursor + 1]
           key == <<reserved_instance.InstanceType,
                    ReservedRegion(reserved_instance, session_region)>>
       IN  reserved_instances' =
             CountReserved(reserved_instances, key, reserved_instance.InstanceCount)
    /\ cursor' = cursor + 1
    /\ UNCHANGED <<other_scripts, pc, inputs, reservations, running_instances, instance_mapping,
                   instance_diff, unused_reservations, unreserved_instances,
                   used_reservations, qty_running_instances, qty_reserved_instances,
                   stdout, stderr>>

RECURSIVE DiffComprehension(_, _, _)
\* line 57: the dict comprehension over the keys of reserved_instances, from the i-th key
\* on; acc carries the dict being built and the two dicts the lookups are made in
DiffComprehension(i, keys, acc) ==
    IF i > Len(keys) THEN acc
    ELSE LET x == keys[i]
             res == DefaultGetItem(acc.reserved, x, 0)
             run == DictGet(acc.running, x, 0)
         IN  DiffComprehension(i + 1, keys,
                 [diff |-> DictSet(acc.diff, x, res.value - run.value),
                  reserved |-> res.dict,
                  running |-> run.dict])

\* line 57 reached while reservation records are still to be counted
ComputeDiffEarly ==
    /\ pc = "count_reserved"
    /\ LET r == DiffComprehension(1, reserved_instances.keys,
                    [diff |-> EmptyDict, reserved |-> reserved_instances,
                     running |-> running_instances])
       IN  /\ instance_diff' = r.diff
           /\ reserved_instances' = r.reserved
           /\ running_instances' = r.running
    /\ cursor' = 0
    /\ pc' = "not_reserved"
    /\ UNCHANGED <<other_scripts, inputs, reservations, instance_mapping, unused_reservations,
                   unreserved_instances, used_reservations, qty_running_instances,
                   qty_reserved_instances, stdout, stderr>>

\* line 57
ComputeDiff ==
    /\ pc = "count_reserved"
    /\ cursor = Len(reservations)
    /\ LET r == DiffComprehension(1, reserved_instances.keys,
                    [diff |-> EmptyDict, reserved |-> reserved_instances,
                     running |-> running_instances])
       IN  /\ instance_diff' = r.diff
           /\ reserved_instances' = r.reserved
           /\ running_instances' = r.running
    /\ cursor' = 0
    /\ pc' = "not_reserved"
    /\ UNCHANGED <<other_scripts, inputs, reservations, instance_mapping, unused_reservations,
                   unreserved_instances, used_reservations, qty_running_instances,
                   qty_reserved_instances, stdout, stderr>>

\* lines 60-62, one iteration: cursor counts the keys of running_instances visited
NotReserved ==
    /\ pc = "not_reserved"
    /\ cursor < Len(running_instances.keys)
    /\ LET placement_key == running_instances.keys[cursor + 1]
       IN  IF ~Has(reserved_instances, placement_key)
           THEN LET run == DefaultGetItem(running_instances, placement_key, 0)
                IN  /\ instance_diff' = DictSet(instance_diff, placement_key, 0 - run.value)
                    /\ running_instances' = run.dict
           ELSE UNCHANGED <<instance_diff, running_instances>>
    /\ cursor' = cursor + 1
    /\ UNCHANGED <<other_scripts, pc, inputs, reservations, instance_mapping, reserved_instances,
                   unused_reservations, unreserved_instances, used_reservations,
                   qty_running_instances, qty_reserved_instances, stdout, stderr>>

\* the dict with the given keys (a subsequence of d.keys) and the values of d
Restrict(d, keys) ==
    [keys |-> keys, val |-> [k \in {keys[i] : i \in 1..Len(keys)} |-> d.val[k]]]

\* line 65: {key: value for key, value in instance_diff.items() if value > 0}
UnusedOf(diff) ==
    LET Keep(key) == diff.val[key] > 0
    IN  Restrict(diff, SelectSeq(diff.keys, Keep))

\* the deficit reported with its sign
UnreservedOfSigned(diff) ==
    LET Keep(key) == diff.val[key] < 0
    IN  Restrict(diff, SelectSeq(diff.keys, Keep))

\* line 73: {key: -value for key, value in instance_diff.items() if value < 0}
UnreservedOf(diff) ==
    LET Keep(key) == diff.val[key] < 0
        kept == Restrict(diff, SelectSeq(diff.keys, Keep))
    IN  [keys |-> kept.keys, val |-> [k \in DOMAIN kept.val |-> 0 - kept.val[k]]]

\* the exactly-used filter written value >= 0
UsedOfNonNegative(diff) ==
    LET Keep(key) == diff.val[key] >= 0
    IN  Restrict(diff, SelectSeq(diff.keys, Keep))

\* line 81: {key: value for key, value in instance_diff.items() if value == 0}
UsedOf(diff) ==
    LET Keep(key) == diff.val[key] = 0
    IN  Restrict(diff, SelectSeq(diff.keys, Keep))

\* lines 67-68 and 75-76: one line per item of the dict, in its order
ItemLines(what, d) ==
    [i \in 1..Len(d.keys) |->
        [line |-> what, value |-> d.val[d.keys[i]],
         instance_type |-> d.keys[i][1], region |-> d.keys[i][2], instances |-> ""]]

\* a line without a key
Message(what) ==
    [line |-> what, value |-> 0, instance_type |-> "", region |-> PyNone, instances |-> ""]

\* lines 65-70
ReportUnused ==
    /\ pc = "not_reserved"
    /\ cursor = Len(running_instances.keys)
    /\ unused_reservations' = UnusedOf(instance_diff)
    /\ stdout' = stdout \o
         (IF unused_reservations'.keys # <<>>
          THEN ItemLines("UNUSED RESERVATION!", unused_reservations')
          ELSE << Message("Congratulations, you have no unused reservations") >>)
    /\ pc' = "unreserved"
    /\ UNCHANGED <<other_scripts, inputs, reservations, cursor, running_instances, instance_mapping,
                   reserved_instances, instance_diff, unreserved_instances,
                   used_reservations, qty_running_instances, qty_reserved_instances,
                   stderr>>

\* lines 73-78
ReportUnreserved ==
    /\ pc = "unreserved"
    /\ unreserved_instances' = UnreservedOf(instance_diff)
    /\ stdout' = stdout \o
         (IF unreserved_instances'.keys # <<>>
          THEN ItemLines("Instance not reserved:", unreserved_instances')
          ELSE << Message("Congratulations, you have no unreserved instances") >>)
    /\ pc' = "used"
    /\ UNCHANGED <<other_scripts, inputs, reservations, cursor, running_instances, instance_mapping,
                   reserved_instances, instance_diff, unused_reservations,
                   used_reservations, qty_running_instances, qty_reserved_instances,
                   stderr>>

RECURSIVE UsedLines(_, _, _)
\* lines 84-86, from the i-th key of used on; acc carries the lines printed and
\* instance_mapping, in which the lookups are made
UsedLines(i, used, acc) ==
    IF i > Len(used.keys) THEN acc
    ELSE LET key == used.keys[i]
             got == DictGet(acc.mapping, key, <<"N/A">>)
             instance_list == got.value
         IN  UsedLines(i + 1, used,
                 [out |-> Append(acc.out,
                            [line |-> "Reserved Instances", value |-> used.val[key],
                             instance_type |-> key[1], region |-> key[2],
                             instances |-> Join(instance_list)]),
                  mapping |-> got.dict])

\* lines 81-88
ReportUsed ==
    /\ pc = "used"
    /\ used_reservations' = UsedOf(instance_diff)
    /\ IF used_reservations'.keys # <<>>
       THEN LET r == UsedLines(1, used_reservations',
                        [out |-> << Message("Used Reservations:") >>,
                         mapping |-> instance_mapping])
            IN  /\ stdout' = stdout \o r.out
                /\ instance_mapping' = r.mapping
       ELSE /\ stdout' = Append(stdout, Message("No used reservations found"))
            /\ UNCHANGED instance_mapping
    /\ pc' = "summary"
    /\ UNCHANGED <<other_scripts, inputs, reservations, cursor, running_instances, reserved_instances,
                   instance_diff, unused_reservations, unreserved_instances,
                   qty_running_instances, qty_reserved_instances, stderr>>

\* lines 91-94
Summary ==
    /\ pc = "summary"
    /\ qty_running_instances' = SumSeq(Values(running_instances))
    /\ qty_reserved_instances' = SumSeq(Values(reserved_instances))
    /\ stdout' = stdout \o
         << [line |-> "running on-demand instances", value |-> qty_running_instances',
             instance_type |-> "", region |-> PyNone, instances |-> ""],
            [line |-> "reservations", value |-> qty_reserved_instances',
             instance_type |-> "", region |-> PyNone, instances |-> ""] >>
    /\ pc' = "done"
    /\ UNCHANGED <<other_scripts, inputs, reservations, cursor, running_instances, instance_mapping,
                   reserved_instances, instance_diff, unused_reservations,
                   unreserved_instances, used_reservations, stderr>>

Next ==
    \/ GetRunningInstances
    \/ CountRunning
    \/ GetReservedInstances
    \/ CountReservedInstance
    \/ ComputeDiff
    \/ NotReserved
    \/ ReportUnused
    \/ ReportUnreserved
    \/ ReportUsed
    \/ Summary

Spec == Init /\ [][Next]_vars

----------------------------------------------------------------------------
(* What the claims speak of, stated over the inputs and the script's position *)

\* The counting loops are over: the two count maps are complete.
Counted == pc \in {"not_reserved", "unreserved", "used", "summary", "done"}
           \/ (pc = "count_reserved" /\ cursor = Len(reservations))

\* instance_diff is complete: line 57 and the loop of lines 60-62 are over.
DiffBuilt == pc \in {"unreserved", "used", "summary", "done"}
             \/ (pc = "not_reserved" /\ cursor = Len(running_instances.keys))

\* the three reports are built
Reported == pc \in {"summary", "done"}

KeysOf(d) == DOMAIN d.val

\* the count a map holds for a key, a missing count being 0
CountIn(d, key) == IF key \in KeysOf(d) THEN d.val[key] ELSE 0

\* every key of the dict is once in its insertion order
EachKeyOnce(d) ==
    /\ {d.keys[i] : i \in 1..Len(d.keys)} = KeysOf(d)
    /\ \A i, j \in 1..Len(d.keys) : d.keys[i] = d.keys[j] => i = j

\* C1: instance_diff is defined on exactly the union of the keys of running_instances
\* and reserved_instances, each key once, and instance_diff[key] is
\* reserved_count[key] - running_count[key], a count missing from a map being 0.
C1_DiffOverUnion ==
    DiffBuilt =>
        /\ KeysOf(instance_diff) = KeysOf(running_instances) \cup KeysOf(reserved_instances)
        /\ EachKeyOnce(instance_diff)
        /\ \A key \in KeysOf(instance_diff) :
              /\ instance_diff.val[key] =
                   CountIn(reserved_instances, key) - CountIn(running_instances, key)
              /\ key \notin KeysOf(reserved_instances) =>
                   instance_diff.val[key] = 0 - running_instances.val[key]
              /\ key \notin KeysOf(running_instances) =>
                   instance_diff.val[key] = reserved_instances.val[key]

\* C1 witness: a diff with a key in both maps, a key only running and a key only reserved
C1_Witness ==
    /\ DiffBuilt
    /\ \E a, b, c \in KeysOf(instance_diff) :
          /\ a \in KeysOf(running_instances) /\ a \in KeysOf(reserved_instances)
          /\ b \in KeysOf(running_instances) /\ b \notin KeysOf(reserved_instances)
          /\ c \notin KeysOf(running_instances) /\ c \in KeysOf(reserved_instances)

\* the keys of a dict, as a set, read off its insertion order
ReportKeys(d) == {d.keys[i] : i \in 1..Len(d.keys)}

\* C2: the three reports partition the keys of instance_diff, which are the keys of the
\* union of the two count maps: every key is in exactly one report, by the sign of its
\* diff, and a key with diff 0 is in neither the unused nor the unreserved report.
C2_ThreeWayPartition ==
    Reported =>
        LET U == ReportKeys(unused_reservations)
            N == ReportKeys(unreserved_instances)
            E == ReportKeys(used_reservations)
        IN  /\ U \cup N \cup E = KeysOf(running_instances) \cup KeysOf(reserved_instances)
            /\ U \cup N \cup E = KeysOf(instance_diff)
            /\ U \cap N = {} /\ U \cap E = {} /\ N \cap E = {}
            /\ EachKeyOnce(unused_reservations)
            /\ EachKeyOnce(unreserved_instances)
            /\ EachKeyOnce(used_reservations)
            /\ \A key \in KeysOf(instance_diff) :
                  /\ key \in U <=> instance_diff.val[key] > 0
                  /\ key \in N <=> instance_diff.val[key] < 0
                  /\ key \in E <=> instance_diff.val[key] = 0
                  /\ instance_diff.val[key] = 0 => key \notin U /\ key \notin N

\* C2 witness: all three reports are non-empty
C2_Witness ==
    /\ Reported
    /\ unused_reservations.keys # <<>>
    /\ unreserved_instances.keys # <<>>
    /\ used_reservations.keys # <<>>

----------------------------------------------------------------------------
(* The inputs as the claims read them *)

\* every instance of the account, in the account's order
AllInstances == Flatten(acct_instances)

\* the account with its spot instances taken out
NonSpotInstances ==
    LET OnDemand(i) == ~i.Spot
    IN  SelectSeq(AllInstances, OnDemand)

\* a string without its last character
AllButLast(s) == [j \in 1..(Len(s) - 1) |-> s[j]]

\* (InstanceType, AvailabilityZone minus its last character)
KeyOfInstance(i) == <<i.InstanceType, PyStr(AllButLast(i.AvailabilityZone))>>

\* the positions of the running instances of a key among the non-spot instances
RunningOf(key) ==
    {n \in 1..Len(NonSpotInstances) :
        /\ NonSpotInstances[n].State = "running"
        /\ KeyOfInstance(NonSpotInstances[n]) = key}

RunningKeys ==
    {KeyOfInstance(NonSpotInstances[n]) :
        n \in {m \in 1..Len(NonSpotInstances) : NonSpotInstances[m].State = "running"}}

\* the region of a reservation record, by the precedence of the data model
ExpectedRegion(r) ==
    CASE r.HasAZ /\ Len(r.AvailabilityZone) > 0 -> PyStr(AllButLast(r.AvailabilityZone))
      [] ~(r.HasAZ /\ Len(r.AvailabilityZone) > 0) /\ r.HasScope /\ r.Scope = "Region" ->
            session_region
      [] OTHER -> PyStr(Unknown)

KeyOfReservation(r) == <<r.InstanceType, ExpectedRegion(r)>>

\* the positions of the active reservations of a key in the account
ActiveOf(key) ==
    {n \in 1..Len(acct_reserved) :
        /\ acct_reserved[n].State = "active"
        /\ KeyOfReservation(acct_reserved[n]) = key}

ReservedKeys ==
    {KeyOfReservation(acct_reserved[n]) :
        n \in {m \in 1..Len(acct_reserved) : acct_reserved[m].State = "active"}}

RECURSIVE SumCounts(_)
\* the sum of InstanceCount over a set of positions of the account's reservations
SumCounts(S) ==
    IF S = {} THEN 0
    ELSE LET n == CHOOSE m \in S : TRUE
         IN  acct_reserved[n].InstanceCount + SumCounts(S \ {n})

ExpectedRunning(key) == Cardinality(RunningOf(key))
ExpectedReserved(key) == SumCounts(ActiveOf(key))
ExpectedDiff(key) == ExpectedReserved(key) - ExpectedRunning(key)

\* the ids every list of instance_mapping holds
MappedIds ==
    UNION {{instance_mapping.val[key][i] : i \in 1..Len(instance_mapping.val[key])} :
              key \in KeysOf(instance_mapping)}

SpotIds == {AllInstances[n].InstanceId : n \in {m \in 1..Len(AllInstances) : AllInstances[m].Spot}}

\* the running instances are all counted
RunningCounted == pc \notin {"describe_instances", "count_running"}
                  \/ (pc = "count_running" /\ cursor = Len(Flatten(reservations)))

\* C3: a running instance with a SpotInstanceRequestId is never counted:
\* running_instances[key] is the number of non-spot running instances of the key, no
\* spot instance's id is in instance_mapping, and every diff value, bucket and total is
\* what the account without its spot instances gives.
C3_SpotNeverCounted ==
    /\ MappedIds \cap SpotIds = {}
    /\ RunningCounted =>
          /\ KeysOf(running_instances) = RunningKeys
          /\ \A key \in RunningKeys : running_instances.val[key] = ExpectedRunning(key)
    /\ DiffBuilt =>
          /\ KeysOf(instance_diff) = RunningKeys \cup ReservedKeys
          /\ \A key \in KeysOf(instance_diff) : instance_diff.val[key] = ExpectedDiff(key)
    /\ Reported =>
          /\ ReportKeys(unused_reservations) =
               {key \in RunningKeys \cup ReservedKeys : ExpectedDiff(key) > 0}
          /\ ReportKeys(unreserved_instances) =
               {key \in RunningKeys \cup ReservedKeys : ExpectedDiff(key) < 0}
          /\ ReportKeys(used_reservations) =
               {key \in RunningKeys \cup ReservedKeys : ExpectedDiff(key) = 0}
    /\ pc = "done" =>
          /\ qty_running_instances =
               Cardinality({n \in 1..Len(NonSpotInstances) :
                               NonSpotInstances[n].State = "running"})
          /\ qty_reserved_instances = SumCounts(UNION {ActiveOf(key) : key \in ReservedKeys})

\* C3 witness: the script has ended on an account with a running spot instance of a key
\* that also has a counted instance and a reservation
C3_Witness ==
    /\ pc = "done"
    /\ \E n \in 1..Len(AllInstances) :
          /\ AllInstances[n].Spot
          /\ AllInstances[n].State = "running"
          /\ KeyOfInstance(AllInstances[n]) \in RunningKeys \cap ReservedKeys
    /\ stderr # <<>>

\* the reservation records counted so far
ReservationsCounted ==
    IF pc = "count_reserved" THEN cursor
    ELSE IF Counted THEN Len(DescribeReservedInstances(acct_reserved))
    ELSE 0

\* C4: the region of a reservation's key is its AvailabilityZone without the last
\* character when that is present and non-empty (even with Scope "Region"); otherwise
\* the session's default region, and not "Unknown", when Scope is "Region"; otherwise
\* "Unknown".
C4_RegionPrecedence ==
    pc \notin {"describe_instances", "count_running"} =>
        LET active == SelectSeq(acct_reserved, IsActive)
        IN  /\ KeysOf(reserved_instances) =
                 {KeyOfReservation(active[n]) : n \in 1..ReservationsCounted}
            /\ \A n \in 1..ReservationsCounted :
                  LET r == active[n]
                      zoned == r.HasAZ /\ r.AvailabilityZone # <<>>
                      regional == r.HasScope /\ r.Scope = "Region"
                  IN  /\ zoned =>
                           <<r.InstanceType, PyStr(AllButLast(r.AvailabilityZone))>>
                              \in KeysOf(reserved_instances)
                      /\ ~zoned /\ regional =>
                           /\ <<r.InstanceType, session_region>> \in KeysOf(reserved_instances)
                           /\ ExpectedRegion(r) # PyStr(Unknown)
                      /\ ~zoned /\ ~regional =>
                           <<r.InstanceType, PyStr(Unknown)>> \in KeysOf(reserved_instances)

\* C4 witness: a reservation with an AvailabilityZone and the Scope "Region" and one
\* with the Scope "Region" alone have been counted
C4_Witness ==
    /\ Counted
    /\ \E n \in 1..Len(acct_reserved) :
          LET r == acct_reserved[n]
          IN  r.State = "active" /\ r.HasAZ /\ r.AvailabilityZone # <<>> /\ r.Scope = "Region"
    /\ \E n \in 1..Len(acct_reserved) :
          LET r == acct_reserved[n]
          IN  r.State = "active" /\ ~r.HasAZ /\ r.Scope = "Region"
    /\ \E key \in KeysOf(reserved_instances) : key[2] = session_region

\* C4 witness of the last case: a reservation counted under the region "Unknown"
C4_WitnessUnknown ==
    /\ Counted
    /\ \E key \in KeysOf(reserved_instances) : key[2] = PyStr(Unknown)

\* C5: every value of unused_reservations is reserved - running of its key and is > 0;
\* every value of unreserved_instances is running - reserved of its key and is > 0.
C5_Magnitudes ==
    Reported =>
        /\ \A key \in KeysOf(unused_reservations) :
              /\ unused_reservations.val[key] = ExpectedReserved(key) - ExpectedRunning(key)
              /\ unused_reservations.val[key] =
                   CountIn(reserved_instances, key) - CountIn(running_instances, key)
              /\ unused_reservations.val[key] > 0
        /\ \A key \in KeysOf(unreserved_instances) :
              /\ unreserved_instances.val[key] = ExpectedRunning(key) - ExpectedReserved(key)
              /\ unreserved_instances.val[key] =
                   CountIn(running_instances, key) - CountIn(reserved_instances, key)
              /\ unreserved_instances.val[key] > 0
        /\ \A i \in 1..Len(stdout) :
              /\ stdout[i].line = "UNUSED RESERVATION!" =>
                   stdout[i].value =
                      ExpectedDiff(<<stdout[i].instance_type, stdout[i].region>>)
              /\ stdout[i].line = "Instance not reserved:" =>
                   stdout[i].value =
                      0 - ExpectedDiff(<<stdout[i].instance_type, stdout[i].region>>)

\* C5 witness: a surplus of 2 and a deficit are both reported
C5_Witness ==
    /\ Reported
    /\ \E key \in KeysOf(unused_reservations) : unused_reservations.val[key] = 2
    /\ \E key \in KeysOf(unreserved_instances) : unreserved_instances.val[key] >= 1

\* the ids of the non-spot running instances of a key, in the account's order
ExpectedIds(key) ==
    LET Of(i) == ~i.Spot /\ i.State = "running" /\ KeyOfInstance(i) = key
        of == SelectSeq(AllInstances, Of)
    IN  [n \in 1..Len(of) |-> of[n].InstanceId]

\* C6: for every exactly-used key the instance list reported is the ids of the non-spot
\* running instances of the key in the order they were encountered, and its length is
\* running_count[key] = reserved_count[key].
C6_UsedInstanceList ==
    pc = "done" =>
        \A key \in KeysOf(used_reservations) :
            /\ key \in KeysOf(instance_mapping)
            /\ instance_mapping.val[key] = ExpectedIds(key)
            /\ Len(instance_mapping.val[key]) = CountIn(running_instances, key)
            /\ Len(instance_mapping.val[key]) = CountIn(reserved_instances, key)
            /\ \E i \in 1..Len(stdout) :
                  /\ stdout[i].line = "Reserved Instances"
                  /\ <<stdout[i].instance_type, stdout[i].region>> = key
                  /\ stdout[i].instances = Join(ExpectedIds(key))
            /\ \A i \in 1..Len(stdout) :
                  stdout[i].line = "Reserved Instances"
                  /\ <<stdout[i].instance_type, stdout[i].region>> = key
                  => stdout[i].instances = Join(ExpectedIds(key))

\* C6 witness: two running instances of a key with a reservation of count 2
C6_Witness ==
    /\ pc = "done"
    /\ \E key \in KeysOf(used_reservations) :
          /\ Len(instance_mapping.val[key]) = 2
          /\ reserved_instances.val[key] = 2

\* C7: qty_running_instances is the sum of running_count over all keys and the number of
\* non-spot running instances of the input; qty_reserved_instances is the sum of
\* reserved_count over all keys and the sum of InstanceCount over the reservation
\* records of the input; the sums are the same before and after the diff and the reports.
C7_Totals ==
    LET counted == {n \in 1..Len(AllInstances) :
                       ~AllInstances[n].Spot /\ AllInstances[n].State = "running"}
        active == {n \in 1..Len(acct_reserved) : acct_reserved[n].State = "active"}
    IN  /\ Counted =>
              /\ SumSeq(Values(running_instances)) = Cardinality(counted)
              /\ SumSeq(Values(reserved_instances)) = SumCounts(active)
        /\ pc = "done" =>
              /\ qty_running_instances = SumSeq(Values(running_instances))
              /\ qty_reserved_instances = SumSeq(Values(reserved_instances))
              /\ qty_running_instances = Cardinality(counted)
              /\ qty_reserved_instances = SumCounts(active)
              /\ \E i \in 1..Len(stdout) :
                    stdout[i].line = "running on-demand instances"
                    /\ stdout[i].value = Cardinality(counted)
              /\ \E i \in 1..Len(stdout) :
                    stdout[i].line = "reservations" /\ stdout[i].value = SumCounts(active)

\* C7 witness: totals over more than one key, with a reservation of count 2
C7_Witness ==
    /\ pc = "done"
    /\ qty_running_instances = 2
    /\ qty_reserved_instances >= 3
    /\ Len(running_instances.keys) = 2
    /\ Len(reserved_instances.keys) = 2

\* the account with the purchases that are not active taken out
ActivePurchases ==
    LET Active(r) == r.State = "active"
    IN  SelectSeq(acct_reserved, Active)

RECURSIVE ActiveCount(_, _)
\* the sum of InstanceCount over the first n active purchases of a key
ActiveCount(key, n) ==
    IF n = 0 THEN 0
    ELSE ActiveCount(key, n - 1) +
         (IF KeyOfReservation(ActivePurchases[n]) = key
          THEN ActivePurchases[n].InstanceCount ELSE 0)

ActiveKeys == {KeyOfReservation(ActivePurchases[n]) : n \in 1..Len(ActivePurchases)}

ActiveReserved(key) == ActiveCount(key, Len(ActivePurchases))

\* the sum of InstanceCount over the active purchases
ActiveTotal ==
    SumSeq([n \in 1..Len(ActivePurchases) |-> ActivePurchases[n].InstanceCount])

\* C8: only active reservations participate: reserved_count, every diff value, the three
\* reports and the reserved total are what the active reservations alone give.
C8_OnlyActive ==
    /\ pc \in {"describe_instances", "count_running"} => reserved_instances = EmptyDict
    /\ pc = "count_reserved" => reservations = ActivePurchases
    /\ Counted =>
          /\ KeysOf(reserved_instances) = ActiveKeys
          /\ \A key \in ActiveKeys : reserved_instances.val[key] = ActiveReserved(key)
    /\ DiffBuilt =>
          /\ KeysOf(instance_diff) = RunningKeys \cup ActiveKeys
          /\ \A key \in KeysOf(instance_diff) :
                instance_diff.val[key] = ActiveReserved(key) - ExpectedRunning(key)
    /\ Reported =>
          /\ \A key \in KeysOf(unused_reservations) :
                /\ ActiveReserved(key) > ExpectedRunning(key)
                /\ unused_reservations.val[key] = ActiveReserved(key) - ExpectedRunning(key)
          /\ \A key \in KeysOf(unreserved_instances) :
                /\ ActiveReserved(key) < ExpectedRunning(key)
                /\ unreserved_instances.val[key] = ExpectedRunning(key) - ActiveReserved(key)
          /\ \A key \in KeysOf(used_reservations) :
                ActiveReserved(key) = ExpectedRunning(key)
          /\ KeysOf(unused_reservations) \cup KeysOf(unreserved_instances)
                \cup KeysOf(used_reservations) = RunningKeys \cup ActiveKeys
    /\ pc = "done" =>
          qty_reserved_instances = ActiveTotal

\* C8 witness: the script has ended on an account with a reservation that is not active
\* and an active one
C8_Witness ==
    /\ pc = "done"
    /\ \E n \in 1..Len(acct_reserved) : acct_reserved[n].State # "active"
    /\ \E n \in 1..Len(acct_reserved) : acct_reserved[n].State = "active"

\* every reservation of the account has a count of at least 1
CountsPositive == \A n \in 1..Len(acct_reserved) : acct_reserved[n].InstanceCount >= 1

\* the key has a running instance or a reservation, in the count maps and in the input
Constructible(key) ==
    /\ CountIn(running_instances, key) >= 1 \/ CountIn(reserved_instances, key) >= 1
    /\ ExpectedRunning(key) >= 1 \/ ExpectedReserved(key) >= 1

\* C9: when every reservation has count >= 1, every key of instance_diff and of each of
\* the three reports has running_count >= 1 or reserved_count >= 1; every exactly-used
\* key has at least one running instance, and the "N/A" placeholder is never reported.
C9_NoEmptyKey ==
    CountsPositive =>
        /\ \A key \in KeysOf(instance_diff) : Constructible(key)
        /\ \A key \in KeysOf(unused_reservations) : Constructible(key)
        /\ \A key \in KeysOf(unreserved_instances) : Constructible(key)
        /\ \A key \in KeysOf(used_reservations) :
              /\ Constructible(key)
              /\ CountIn(running_instances, key) >= 1
              /\ ExpectedRunning(key) >= 1
              /\ key \in KeysOf(instance_mapping)
              /\ instance_mapping.val[key] # <<>>
        /\ \A i \in 1..Len(stdout) : stdout[i].instances # "N/A"

\* C9 witness: an exactly-used key has been reported with its instances
C9_Witness ==
    /\ pc = "done"
    /\ CountsPositive
    /\ used_reservations.keys # <<>>
    /\ \E i \in 1..Len(stdout) :
          stdout[i].line = "Reserved Instances" /\ stdout[i].instances # ""

\* a step of the diff or of the bucketing (lines 56-94)
ReconcileStep ==
    ComputeDiff \/ NotReserved \/ ReportUnused \/ ReportUnreserved \/ ReportUsed \/ Summary

\* C10: building instance_diff and the three reports leaves running_instances,
\* reserved_instances and instance_mapping unchanged.
C10_InputsUnchanged ==
    [][ReconcileStep =>
          /\ running_instances' = running_instances
          /\ reserved_instances' = reserved_instances
          /\ instance_mapping' = instance_mapping]_vars

\* C10 witness: the reports are built over a reserved key that running_instances lacks
\* and a running key that reserved_instances lacks, both looked up on the way
C10_Witness ==
    /\ pc = "done"
    /\ \E key \in KeysOf(reserved_instances) : key \notin KeysOf(running_instances)
    /\ \E key \in KeysOf(running_instances) : key \notin KeysOf(reserved_instances)
    /\ used_reservations.keys # <<>>

----------------------------------------------------------------------------
(* The order of collecting and reconciling *)

\* line 57 has been executed
DiffStarted == pc \in {"not_reserved", "unreserved", "used", "summary", "done"}

\* the positions of the running instances of the account, spot ones included
AllRunning == {n \in 1..Len(AllInstances) : AllInstances[n].State = "running"}

\* the positions of the active reservations of the account
AllActive == {n \in 1..Len(acct_reserved) : acct_reserved[n].State = "active"}

\* the ids written to stderr as disqualified
Disqualified == {stderr[i].disqualified : i \in 1..Len(stderr)}

\* the diff is computed at one point of the execution only, when both responses have
\* been iterated to their ends, and nothing is fetched or counted afterwards
DiffOnceAfterCollecting ==
    /\ ENABLED ComputeDiff =>
          /\ pc = "count_reserved"
          /\ cursor = Len(reservations)
          /\ reservations = SelectSeq(acct_reserved, IsActive)
          /\ instance_diff = EmptyDict
    /\ DiffStarted =>
          /\ ~ENABLED ComputeDiff
          /\ ~ENABLED GetRunningInstances
          /\ ~ENABLED CountRunning
          /\ ~ENABLED GetReservedInstances
          /\ ~ENABLED CountReservedInstance
          /\ reservations = SelectSeq(acct_reserved, IsActive)
    /\ ~DiffStarted => instance_diff = EmptyDict

\* every active reservation of the account is in reserved_instances
ReservationsAllCounted ==
    /\ \A n \in AllActive : KeyOfReservation(acct_reserved[n]) \in KeysOf(reserved_instances)
    /\ SumSeq(Values(reserved_instances)) = SumCounts(AllActive)

----------------------------------------------------------------------------
(* Executions of reserved_instance.py side by side: the script run twice, or
   for two profiles at the same time, each execution a process with its own
   names *)

RunRecords == 2

Profiles == {"a", "b"}

OtherProfile(profile) == IF profile = "a" THEN "b" ELSE "a"

\* Accounts with at most RunRecords instance and purchase records
Accounts ==
    { account \in
        { [instances |-> Grouped(WithIds(flat)), reserved |-> purchases] :
            flat \in BoundedSeq(InstanceKinds, RunRecords),
            purchases \in BoundedSeq(ReservedKinds, RunRecords) } :
        Len(Flatten(account.instances)) + Len(account.reserved) <= RunRecords }

\* An account that runs two on-demand instances under a regional reservation of two
OtherAccount ==
    LET on_demand == [InstanceType |-> "m5.large", AvailabilityZone |-> AZ_r1a,
                      Spot |-> FALSE, State |-> "running"]
        regional == [InstanceType |-> "m5.large", HasAZ |-> FALSE, AvailabilityZone |-> <<>>,
                     HasScope |-> TRUE, Scope |-> "Region", InstanceCount |-> 2,
                     State |-> "active"]
    IN  [instances |-> Grouped(WithIds(<<on_demand, on_demand>>)), reserved |-> <<regional>>]

\* The names of an execution when it starts on an account with a session
StartOf(account, region_name) ==
    [pc |-> "describe_instances",
     acct_instances |-> account.instances,
     acct_reserved |-> account.reserved,
     session_region |-> region_name,
     reservations |-> <<>>,
     cursor |-> 0,
     running_instances |-> EmptyDict,
     instance_mapping |-> EmptyDict,
     reserved_instances |-> EmptyDict,
     instance_diff |-> EmptyDict,
     unused_reservations |-> EmptyDict,
     unreserved_instances |-> EmptyDict,
     used_reservations |-> EmptyDict,
     qty_running_instances |-> 0,
     qty_reserved_instances |-> 0,
     stdout |-> <<>>,
     stderr |-> <<>>]

\* lines 28-37, one iteration of the inner loop, on the names s
StepCountRunning(s) ==
    LET instance == Flatten(s.reservations)[s.cursor + 1]
    IN  IF IsSpot(instance)
        THEN [s EXCEPT !.stderr = Append(@, [disqualified |-> instance.InstanceId,
                                              why |-> "spot"]),
                       !.cursor = @ + 1]
        ELSE [s EXCEPT !.running_instances = CountInstance(@, PlacementKey(instance)),
                       !.instance_mapping =
                            MapInstance(@, PlacementKey(instance), instance.InstanceId),
                       !.cursor = @ + 1]

\* lines 43-54, one iteration, on the names s
StepCountReserved(s) ==
    LET reserved_instance == s.reservations[s.cursor + 1]
        key == <<reserved_instance.InstanceType,
                 ReservedRegion(reserved_instance, s.session_region)>>
    IN  [s EXCEPT !.reserved_instances =
                       CountReserved(@, key, reserved_instance.InstanceCount),
                  !.cursor = @ + 1]

\* line 57, on the names s
StepComputeDiff(s) ==
    LET r == DiffComprehension(1, s.reserved_instances.keys,
                 [diff |-> EmptyDict, reserved |-> s.reserved_instances,
                  running |-> s.running_instances])
    IN  [s EXCEPT !.instance_diff = r.diff,
                  !.reserved_instances = r.reserved,
                  !.running_instances = r.running,
                  !.cursor = 0,
                  !.pc = "not_reserved"]

\* lines 60-62, one iteration, on the names s
StepNotReserved(s) ==
    LET placement_key == s.running_instances.keys[s.cursor + 1]
    IN  IF ~Has(s.reserved_instances, placement_key)
        THEN LET run == DefaultGetItem(s.running_instances, placement_key, 0)
             IN  [s EXCEPT !.instance_diff = DictSet(@, placement_key, 0 - run.value),
                           !.running_instances = run.dict,
                           !.cursor = @ + 1]
        ELSE [s EXCEPT !.cursor = @ + 1]

\* lines 65-70, on the names s
StepReportUnused(s) ==
    LET unused == UnusedOf(s.instance_diff)
    IN  [s EXCEPT !.unused_reservations = unused,
                  !.stdout = @ \o
                      (IF unused.keys # <<>>
                       THEN ItemLines("UNUSED RESERVATION!", unused)
                       ELSE << Message("Congratulations, you have no unused reservations") >>),
                  !.pc = "unreserved"]

\* lines 73-78, on the names s
StepReportUnreserved(s) ==
    LET unreserved == UnreservedOf(s.instance_diff)
    IN  [s EXCEPT !.unreserved_instances = unreserved,
                  !.stdout = @ \o
                      (IF unreserved.keys # <<>>
                       THEN ItemLines("Instance not reserved:", unreserved)
                       ELSE << Message("Congratulations, you have no unreserved instances") >>),
                  !.pc = "used"]

\* lines 81-88, on the names s
StepReportUsed(s) ==
    LET used == UsedOf(s.instance_diff)
        r == UsedLines(1, used, [out |-> << Message("Used Reservations:") >>,
                                 mapping |-> s.instance_mapping])
    IN  IF used.keys # <<>>
        THEN [s EXCEPT !.used_reservations = used,
                       !.stdout = @ \o r.out,
                       !.instance_mapping = r.mapping,
                       !.pc = "summary"]
        ELSE [s EXCEPT !.used_reservations = used,
                       !.stdout = Append(@, Message("No used reservations found")),
                       !.pc = "summary"]

\* lines 91-94, on the names s
StepSummary(s) ==
    LET qty_running == SumSeq(Values(s.running_instances))
        qty_reserved == SumSeq(Values(s.reserved_instances))
    IN  [s EXCEPT !.qty_running_instances = qty_running,
                  !.qty_reserved_instances = qty_reserved,
                  !.stdout = @ \o
                      << [line |-> "running on-demand instances", value |-> qty_running,
                          instance_type |-> "", region |-> PyNone, instances |-> ""],
                         [line |-> "reservations", value |-> qty_reserved,
                          instance_type |-> "", region |-> PyNone, instances |-> ""] >>,
                  !.pc = "done"]

\* The next statement of the script on the names s: lines 23-94 in program order
ScriptStep(s) ==
    CASE s.pc = "describe_instances" ->
           [s EXCEPT !.reservations = DescribeInstances(s.acct_instances),
                     !.cursor = 0,
                     !.running_instances = EmptyDict,
                     !.instance_mapping = EmptyDict,
                     !.pc = "count_running"]
      [] s.pc = "count_running" ->
           IF s.cursor < Len(Flatten(s.reservations))
           THEN StepCountRunning(s)
           ELSE [s EXCEPT !.reserved_instances = EmptyDict,
                          !.reservations = DescribeReservedInstances(s.acct_reserved),
                          !.cursor = 0,
                          !.pc = "count_reserved"]
      [] s.pc = "count_reserved" ->
           IF s.cursor < Len(s.reservations)
           THEN StepCountReserved(s)
           ELSE StepComputeDiff(s)
      [] s.pc = "not_reserved" ->
           IF s.cursor < Len(s.running_instances.keys)
           THEN StepNotReserved(s)
           ELSE StepReportUnused(s)
      [] s.pc = "unreserved" -> StepReportUnreserved(s)
      [] s.pc = "used" -> StepReportUsed(s)
      [] s.pc = "summary" -> StepSummary(s)
      [] OTHER -> s

\* the execution reads the running counts of the other profile's execution
RunStepSharedCounts(all, profile) ==
    ScriptStep([all[profile] EXCEPT
                  !.running_instances = all[OtherProfile(profile)].running_instances])

\* the execution reads the instance lists of the other profile's execution
RunStepSharedMapping(all, profile) ==
    ScriptStep([all[profile] EXCEPT
                  !.instance_mapping = all[OtherProfile(profile)].instance_mapping])

\* lines 18-20: an execution has a session and a client of its own, and the names of
\* lines 22-94 are its own process's; its next statement reads and writes these only
RunStep(all, profile) == ScriptStep(all[profile])

\* Profile "a" is run on any account; profile "b" on the same collections or on
\* another account, with a session of its own.
InitRuns ==
    /\ \E account \in Accounts, other \in BOOLEAN, region_name \in SessionRegions :
          runs = [profile \in Profiles |->
                    IF profile = "a" THEN StartOf(account, PyStr(Region_r1))
                    ELSE StartOf(IF other THEN OtherAccount ELSE account, region_name)]
    /\ ScriptIdle
    /\ ExposedIdle
    /\ NaclIdle
    /\ SpinnerIdle
    /\ ExportIdle

\* One statement of one of the executions, whichever the scheduler picks
Run(profile) ==
    /\ runs[profile].pc # "done"
    /\ runs' = [runs EXCEPT ![profile] = RunStep(runs, profile)]
    /\ UNCHANGED not_runs

NextRuns == \E profile \in Profiles : Run(profile)

SpecRuns == InitRuns /\ [][NextRuns]_vars

\* The names of the single execution, as a record
AsRecord ==
    [pc |-> pc, acct_instances |-> acct_instances, acct_reserved |-> acct_reserved,
     session_region |-> session_region, reservations |-> reservations, cursor |-> cursor,
     running_instances |-> running_instances, instance_mapping |-> instance_mapping,
     reserved_instances |-> reserved_instances, instance_diff |-> instance_diff,
     unused_reservations |-> unused_reservations,
     unreserved_instances |-> unreserved_instances,
     used_reservations |-> used_reservations,
     qty_running_instances |-> qty_running_instances,
     qty_reserved_instances |-> qty_reserved_instances,
     stdout |-> stdout, stderr |-> stderr]

\* ScriptStep is the script: every step of Spec is the step ScriptStep makes
StepAgrees == [][Next => AsRecord' = ScriptStep(AsRecord)]_vars

RECURSIVE RunAlone(_)
\* The names an execution ends with when nothing else runs
RunAlone(s) == IF s.pc = "done" THEN s ELSE RunAlone(ScriptStep(s))

\* the input collections of an execution
Collections(s) == <<s.acct_instances, s.acct_reserved>>

\* the instance ids printed for the exactly-used keys
InstanceLists(s) ==
    [key \in KeysOf(s.used_reservations) |->
        IF Has(s.instance_mapping, key) THEN s.instance_mapping.val[key] ELSE <<"N/A">>]

\* what an execution reports: the count maps, the diff, the three reports with the
\* instance lists, the totals, and the lines written
ResultsOf(s) ==
    [running_instances |-> s.running_instances,
     reserved_instances |-> s.reserved_instances,
     instance_diff |-> s.instance_diff,
     unused_reservations |-> s.unused_reservations,
     unreserved_instances |-> s.unreserved_instances,
     used_reservations |-> s.used_reservations,
     instance_lists |-> InstanceLists(s),
     qty_running_instances |-> s.qty_running_instances,
     qty_reserved_instances |-> s.qty_reserved_instances,
     stdout |-> s.stdout,
     stderr |-> s.stderr]

BothDone == \A profile \in Profiles : runs[profile].pc = "done"

StartedWith(profile) ==
    StartOf([instances |-> runs[profile].acct_instances,
             reserved |-> runs[profile].acct_reserved],
            runs[profile].session_region)

RECURSIVE ReachedAlone(_, _)
\* The execution started with the names s is, run alone, at some moment at target
ReachedAlone(s, target) ==
    \/ s = target
    \/ s.pc # "done" /\ ReachedAlone(ScriptStep(s), target)

----------------------------------------------------------------------------
(* aws_externally_exposed.py: process_profile, its region workers and the
   thread that collects their results *)

MaxRegions == 3
MaxWorkers == 2

RegionNames == {"r1", "r2", "r3"}

\* get_regions: the region list, each region once; empty when the lookup fails
RegionLists ==
    { regions \in BoundedSeq(RegionNames, MaxRegions) :
        \A i, j \in 1..Len(regions) : regions[i] = regions[j] => i = j }

\* What the three fetches of a region find; "raise" is an error that is not a
\* ClientError (the only one the three functions catch), raised in the worker.
Findings ==
    { [sg |-> 0, nacl |-> 0, ec2 |-> 0, raises |-> FALSE],
      [sg |-> 1, nacl |-> 0, ec2 |-> 0, raises |-> FALSE],
      [sg |-> 1, nacl |-> 1, ec2 |-> 1, raises |-> FALSE],
      [sg |-> 0, nacl |-> 0, ec2 |-> 0, raises |-> TRUE] }

\* the rows of one kind found in a region
Rows(kind, n, region) == [i \in 1..n |-> [type |-> kind, id |-> i, region |-> region]]

\* lines 116-122
process_region(found, region) ==
    Rows("Security Group", found.sg, region)
    \o Rows("Network ACL", found.nacl, region)
    \o Rows("EC2 Instance", found.ec2, region)

\* get_exposed_s3_buckets(session): rows of the global service
S3Rows(n) == Rows("S3 Bucket", n, "Global")

\* lines 126-129: the session, the region list and the empty result list
InitExposed ==
    /\ xp_pc = "map"
    /\ xp_regions \in RegionLists
    /\ xp_found \in [1..Len(xp_regions) -> Findings]
    /\ xp_buckets \in 0..1
    /\ xp_task = [i \in 1..Len(xp_regions) |-> "none"]
    /\ xp_future = [i \in 1..Len(xp_regions) |-> <<>>]
    /\ xp_finished = <<>>
    /\ xp_collected = <<>>
    /\ xp_data = <<>>
    /\ ScriptIdle
    /\ RunsIdle
    /\ NaclIdle
    /\ SpinnerIdle
    /\ ExportIdle

xp_inputs == <<xp_regions, xp_found, xp_buckets>>

\* line 133: executor.map submits one call of process_region per region, in order
Map ==
    /\ xp_pc = "map"
    /\ xp_task' = [i \in 1..Len(xp_regions) |-> "pending"]
    /\ xp_pc' = "collect"
    /\ UNCHANGED <<not_exposed, xp_finished, xp_inputs, xp_future, xp_collected, xp_data>>

Working == {i \in 1..Len(xp_task) : xp_task[i] = "running"}
Pending == {i \in 1..Len(xp_task) : xp_task[i] = "pending"}

\* a free worker of the pool takes the oldest call that waits
WorkerStart(i) ==
    /\ i \in Pending
    /\ \A j \in Pending : i <= j
    /\ Cardinality(Working) < MaxWorkers
    /\ xp_task' = [xp_task EXCEPT ![i] = "running"]
    /\ UNCHANGED <<not_exposed, xp_finished, xp_pc, xp_inputs, xp_future, xp_collected, xp_data>>

\* the worker's call of process_region returns or raises: the future is resolved
WorkerFinish(i) ==
    /\ i \in Working
    /\ xp_finished' = Append(xp_finished, i)
    /\ IF xp_found[i].raises
       THEN /\ xp_task' = [xp_task EXCEPT ![i] = "failed"]
            /\ UNCHANGED xp_future
       ELSE /\ xp_task' = [xp_task EXCEPT ![i] = "done"]
            /\ xp_future' = [xp_future EXCEPT ![i] = process_region(xp_found[i], xp_regions[i])]
    /\ UNCHANGED <<not_exposed, xp_pc, xp_inputs, xp_collected, xp_data>>

\* the results taken as they complete, whichever region completes first
CollectAsCompleted ==
    /\ xp_pc = "collect"
    /\ \E i \in 1..Len(xp_regions) :
          /\ xp_task[i] = "done"
          /\ \A n \in 1..Len(xp_collected) : xp_collected[n] # i
          /\ xp_data' = xp_data \o xp_future[i]
          /\ xp_collected' = Append(xp_collected, i)
    /\ UNCHANGED <<not_exposed, xp_finished, xp_pc, xp_inputs, xp_task, xp_future>>

\* lines 134-135, one iteration: the iterator of executor.map yields the result of
\* the next region of the list once its call has returned
Collect ==
    /\ xp_pc = "collect"
    /\ LET i == Len(xp_collected) + 1
       IN  /\ i <= Len(xp_regions)
           /\ xp_task[i] = "done"
           /\ xp_data' = xp_data \o xp_future[i]
           /\ xp_collected' = Append(xp_collected, i)
    /\ UNCHANGED <<not_exposed, xp_finished, xp_pc, xp_inputs, xp_task, xp_future>>

\* line 134: the iterator re-raises the error of the next region's call and cancels
\* the calls no worker has taken
CollectRaises ==
    /\ xp_pc = "collect"
    /\ LET i == Len(xp_collected) + 1
       IN  /\ i <= Len(xp_regions)
           /\ xp_task[i] = "failed"
    /\ xp_task' = [j \in 1..Len(xp_task) |->
                      IF xp_task[j] = "pending" THEN "cancelled" ELSE xp_task[j]]
    /\ xp_pc' = "unwind"
    /\ UNCHANGED <<not_exposed, xp_finished, xp_inputs, xp_future, xp_collected, xp_data>>

\* line 132, leaving the with block: shutdown(wait=True) returns when no worker runs
ExitPool ==
    /\ xp_pc \in {"collect", "unwind"}
    /\ xp_pc = "collect" => Len(xp_collected) = Len(xp_regions)
    /\ Working = {}
    /\ xp_pc' = IF xp_pc = "collect" THEN "s3" ELSE "raised"
    /\ UNCHANGED <<not_exposed, xp_finished, xp_inputs, xp_task, xp_future, xp_collected, xp_data>>

\* lines 138-140
AppendS3 ==
    /\ xp_pc = "s3"
    /\ xp_data' = xp_data \o S3Rows(xp_buckets)
    /\ xp_pc' = "returned"
    /\ UNCHANGED <<not_exposed, xp_finished, xp_inputs, xp_task, xp_future, xp_collected>>

NextExposed ==
    \/ Map
    \/ \E i \in 1..Len(xp_regions) : WorkerStart(i)
    \/ \E i \in 1..Len(xp_regions) : WorkerFinish(i)
    \/ Collect
    \/ CollectRaises
    \/ ExitPool
    \/ AppendS3

SpecExposed == InitExposed /\ [][NextExposed]_vars

RECURSIVE RegionResults(_)
\* the results of the first n regions of the list, one after the other
RegionResults(n) ==
    IF n = 0 THEN <<>>
    ELSE RegionResults(n - 1) \o process_region(xp_found[n], xp_regions[n])

\* C14: the result list holds, at every moment, the results of a first part of the
\* region list in the order of the list (so no worker, finishing in whatever order,
\* has written to it); what is returned is the results of all regions in the order
\* of the list followed by the S3 rows; and the S3 rows are in the list only when
\* every region's worker has finished.
C14_JoinedInOrder ==
    /\ xp_pc # "returned" => xp_data = RegionResults(Len(xp_collected))
    /\ xp_pc = "returned" =>
          /\ xp_data = RegionResults(Len(xp_regions)) \o S3Rows(xp_buckets)
          /\ \A i \in 1..Len(xp_regions) : xp_task[i] = "done"
    /\ xp_pc = "s3" => \A i \in 1..Len(xp_regions) : xp_task[i] = "done"

\* Two regions with findings, the S3 rows appended, after the second region's
\* worker had finished while the first was still running
C14_Witness ==
    /\ xp_pc = "returned"
    /\ Len(xp_regions) = 2
    /\ xp_finished = <<2, 1>>
    /\ xp_future[1] # <<>> /\ xp_future[2] # <<>>
    /\ xp_buckets = 1

----------------------------------------------------------------------------
(* aws_externally_exposed.py: get_exposed_network_acls *)

MaxEntries == 2

NetworkAclIds == <<"acl-1", "acl-2">>

AnyIpv4 == "0.0.0.0/0"
AnyIpv6 == "::/0"
Subnet == "10.0.0.0/16"

\* Entries of a Network ACL: an IPv4 entry has a CidrBlock, an IPv6 one an
\* Ipv6CidrBlock only.
EntryKinds ==
    { [HasCidrBlock |-> TRUE,  CidrBlock |-> AnyIpv4, Ipv6CidrBlock |-> "", RuleAction |-> "allow"],
      [HasCidrBlock |-> TRUE,  CidrBlock |-> AnyIpv4, Ipv6CidrBlock |-> "", RuleAction |-> "deny"],
      [HasCidrBlock |-> TRUE,  CidrBlock |-> Subnet,  Ipv6CidrBlock |-> "", RuleAction |-> "allow"],
      [HasCidrBlock |-> TRUE,  CidrBlock |-> Subnet,  Ipv6CidrBlock |-> "", RuleAction |-> "deny"],
      [HasCidrBlock |-> FALSE, CidrBlock |-> "", Ipv6CidrBlock |-> AnyIpv6, RuleAction |-> "allow"] }

\* The i-th entry of a Network ACL gets the rule number i.
Numbered(entries) ==
    [i \in 1..Len(entries) |->
        [HasCidrBlock |-> entries[i].HasCidrBlock, CidrBlock |-> entries[i].CidrBlock,
         Ipv6CidrBlock |-> entries[i].Ipv6CidrBlock, RuleAction |-> entries[i].RuleAction,
         RuleNumber |-> i]]

\* describe_network_acls()['NetworkAcls']: the Network ACLs of the region
NetworkAclLists ==
    UNION { [1..k -> { Numbered(entries) : entries \in BoundedSeq(EntryKinds, MaxEntries) }] :
              k \in 0..Len(NetworkAclIds) }

\* line 61: entry.get('CidrBlock', entry.get('Ipv6CidrBlock'))
CidrOf(entry) == IF entry.HasCidrBlock THEN entry.CidrBlock ELSE entry.Ipv6CidrBlock

\* line 73: the row of an allowed cidr
NaclRow(id, cidr, region) ==
    [type |-> "Network ACL", id |-> id, name |-> "N/A", issue |-> "Allows " \o cidr,
     region |-> region]

\* lines 71-73: the rows of the allowed cidrs, in the order of allow_rules
NaclRows(id, allowed, denied, region) ==
    LET Exposed(cidr) == cidr \notin denied
        kept == SelectSeq(allowed.keys, Exposed)
    IN  [i \in 1..Len(kept) |-> NaclRow(id, kept[i], region)]

\* lines 52-55: the client of the region, and what describe_network_acls answers: an
\* error, or the Network ACLs of the region
InitNacl ==
    /\ nacl_pc = "describe"
    /\ nacl_fails \in BOOLEAN
    /\ network_acls \in IF nacl_fails THEN {<<>>} ELSE NetworkAclLists
    /\ nacl_at = 0
    /\ entry_at = 0
    /\ allow_rules = EmptyDict
    /\ deny_rules = {}
    /\ nacl_results = <<>>
    /\ ScriptIdle
    /\ RunsIdle
    /\ ExposedIdle
    /\ SpinnerIdle
    /\ ExportIdle

\* lines 53-55
DescribeNetworkAcls ==
    /\ nacl_pc = "describe"
    /\ ~nacl_fails
    /\ nacl_results' = <<>>
    /\ nacl_at' = 1
    /\ entry_at' = 0
    /\ allow_rules' = EmptyDict
    /\ deny_rules' = {}
    /\ nacl_pc' = "entries"
    /\ UNCHANGED <<not_nacl, network_acls, nacl_fails>>

\* lines 76-78: the call raises a ClientError
DescribeFails ==
    /\ nacl_pc = "describe"
    /\ nacl_fails
    /\ nacl_results' = <<>>
    /\ nacl_pc' = "returned"
    /\ UNCHANGED <<not_nacl, network_acls, nacl_fails, nacl_at, entry_at, allow_rules,
                   deny_rules>>

\* lines 60-68, one iteration
StoreEntry ==
    /\ nacl_pc = "entries"
    /\ nacl_at <= Len(network_acls)
    /\ entry_at < Len(network_acls[nacl_at])
    /\ LET entry == network_acls[nacl_at][entry_at + 1]
           cidr == CidrOf(entry)
       IN  IF entry.RuleAction = "deny"
           THEN /\ deny_rules' = deny_rules \cup {cidr}
                /\ UNCHANGED allow_rules
           ELSE IF entry.RuleAction = "allow"
           THEN /\ allow_rules' = DictSet(allow_rules, cidr, entry.RuleNumber)
                /\ UNCHANGED deny_rules
           ELSE UNCHANGED <<allow_rules, deny_rules>>
    /\ entry_at' = entry_at + 1
    /\ UNCHANGED <<not_nacl, nacl_pc, network_acls, nacl_fails, nacl_at, nacl_results>>

\* lines 70-72, and lines 57-58 for the next Network ACL
ReportNacl ==
    /\ nacl_pc = "entries"
    /\ nacl_at <= Len(network_acls)
    /\ entry_at = Len(network_acls[nacl_at])
    /\ nacl_results' = nacl_results \o
                         NaclRows(NetworkAclIds[nacl_at], allow_rules, deny_rules, "r1")
    /\ nacl_at' = nacl_at + 1
    /\ entry_at' = 0
    /\ allow_rules' = EmptyDict
    /\ deny_rules' = {}
    /\ UNCHANGED <<not_nacl, nacl_pc, network_acls, nacl_fails>>

\* line 74
ReturnResults ==
    /\ nacl_pc = "entries"
    /\ nacl_at > Len(network_acls)
    /\ nacl_pc' = "returned"
    /\ UNCHANGED <<not_nacl, network_acls, nacl_fails, nacl_at, entry_at, allow_rules,
                   deny_rules, nacl_results>>

NextNacl ==
    \/ DescribeNetworkAcls
    \/ DescribeFails
    \/ StoreEntry
    \/ ReportNacl
    \/ ReturnResults

SpecNacl == InitNacl /\ [][NextNacl]_vars

\* the entries of the n-th Network ACL with the given action
EntriesOf(n, action) ==
    {i \in 1..Len(network_acls[n]) : network_acls[n][i].RuleAction = action}

\* the cidrs the entries of the n-th Network ACL with the given action name
CidrsOf(n, action) == {CidrOf(network_acls[n][i]) : i \in EntriesOf(n, action)}

\* the rows reported for the n-th Network ACL
RowsOf(n) ==
    {i \in 1..Len(nacl_results) : nacl_results[i].id = NetworkAclIds[n]}

\* What get_exposed_network_acls returns: for every Network ACL, one row for each
\* cidr that an allow entry names and no deny entry names, and no other row.
NaclAllowedNotDenied ==
    nacl_pc = "returned" =>
        /\ \A i \in 1..Len(nacl_results) :
              \E n \in 1..Len(network_acls) : nacl_results[i].id = NetworkAclIds[n]
        /\ \A n \in 1..Len(network_acls) :
              /\ {nacl_results[i].issue : i \in RowsOf(n)} =
                   {"Allows " \o cidr : cidr \in CidrsOf(n, "allow") \ CidrsOf(n, "deny")}
              /\ \A i, j \in RowsOf(n) :
                    nacl_results[i].issue = nacl_results[j].issue => i = j

\* C15: a Network ACL is reported only for allow entries that grant unrestricted
\* access (any IPv4 or any IPv6 address) and that no deny entry of the same Network
\* ACL overrides: every row is for such a cidr, named by an allow entry and by no
\* deny entry, and each such cidr is reported once per Network ACL.
C15_OnlyUnrestrictedAllows ==
    /\ NaclAllowedNotDenied
    /\ nacl_pc = "returned" =>
          \A i \in 1..Len(nacl_results) :
              nacl_results[i].issue \in {"Allows " \o AnyIpv4, "Allows " \o AnyIpv6}

\* A Network ACL that allows a subnet only has been reported
C15_Witness ==
    /\ nacl_pc = "returned"
    /\ \E i \in 1..Len(nacl_results) : nacl_results[i].issue = "Allows " \o Subnet

----------------------------------------------------------------------------
(* s3_bucket_report.py: main and the Spinner thread it starts *)

MaxProfiles == 2
MaxSpins == 5

\* How process_account and the writing of the two sheets end for a profile: sheets
\* written, None returned (lines 88-90), or an exception that nothing in main
\* catches (lines 81-83, 98-110, 144, 148).
ProfileOutcomes == {"sheets", "none", "raises"}

SpinnerChars == <<"|", "/", "-", "\\">>

\* Spinner.__init__ and the state before main's first statement
InitSpinner ==
    /\ main_pc = "start"
    /\ s3_profiles \in BoundedSeq(ProfileOutcomes, MaxProfiles)
    /\ profile_at = 1
    /\ spinner_running = FALSE
    /\ spinner_thread = "none"
    /\ spin_pc = "unborn"
    /\ char_at = 1
    /\ terminal = <<>>
    /\ stop_called = FALSE
    /\ ScriptIdle
    /\ RunsIdle
    /\ ExposedIdle
    /\ NaclIdle
    /\ ExportIdle

\* lines 121-131: Spinner.start (lines 28-31), and the profiles and the writer
SpinnerStart ==
    /\ main_pc = "start"
    /\ spinner_running' = TRUE
    /\ spinner_thread' = "alive"
    /\ spin_pc' = "while"
    /\ main_pc' = "profiles"
    /\ UNCHANGED <<not_spinner, s3_profiles, profile_at, char_at, terminal, stop_called>>

\* lines 133-148, one iteration: an exception leaves main
ProcessProfile ==
    /\ main_pc = "profiles"
    /\ profile_at <= Len(s3_profiles)
    /\ IF s3_profiles[profile_at] = "raises"
       THEN /\ main_pc' = "raised"
            /\ UNCHANGED profile_at
       ELSE /\ profile_at' = profile_at + 1
            /\ UNCHANGED main_pc
    /\ UNCHANGED <<not_spinner, s3_profiles, spinner_running, spinner_thread, spin_pc,
                   char_at, terminal, stop_called>>

\* line 150, and line 34 of Spinner.stop
StopClearsRunning ==
    /\ main_pc = "profiles"
    /\ profile_at > Len(s3_profiles)
    /\ stop_called' = TRUE
    /\ spinner_running' = FALSE
    /\ main_pc' = "join"
    /\ UNCHANGED <<not_spinner, s3_profiles, profile_at, spinner_thread, spin_pc, char_at,
                   terminal>>

\* lines 35-36: join returns when the thread has ended
StopJoins ==
    /\ main_pc = "join"
    /\ spinner_thread = "none" \/ spin_pc = "exited"
    /\ main_pc' = "done_line"
    /\ UNCHANGED <<not_spinner, s3_profiles, profile_at, spinner_running, spinner_thread,
                   spin_pc, char_at, terminal, stop_called>>

\* line 37, and line 152
StopWritesDone ==
    /\ main_pc = "done_line"
    /\ terminal' = Append(terminal, "\rDone!           \n")
    /\ main_pc' = "returned"
    /\ UNCHANGED <<not_spinner, s3_profiles, profile_at, spinner_running, spinner_thread,
                   spin_pc, char_at, stop_called>>

\* line 20: the test of the while loop; line 21 starts the for loop anew
SpinWhile ==
    /\ spin_pc = "while"
    /\ IF spinner_running
       THEN /\ spin_pc' = "write"
            /\ char_at' = 1
       ELSE /\ spin_pc' = "exited"
            /\ UNCHANGED char_at
    /\ UNCHANGED <<not_spinner, main_pc, s3_profiles, profile_at, spinner_running,
                   spinner_thread, terminal, stop_called>>

\* lines 22-23
SpinWrite ==
    /\ spin_pc = "write"
    /\ Len(terminal) < MaxSpins
    /\ terminal' = Append(terminal, "\rProcessing... " \o SpinnerChars[char_at])
    /\ spin_pc' = "check"
    /\ UNCHANGED <<not_spinner, main_pc, s3_profiles, profile_at, spinner_running,
                   spinner_thread, char_at, stop_called>>

\* lines 24-25
SpinCheck ==
    /\ spin_pc = "check"
    /\ spin_pc' = IF ~spinner_running THEN "while" ELSE "sleep"
    /\ UNCHANGED <<not_spinner, main_pc, s3_profiles, profile_at, spinner_running,
                   spinner_thread, char_at, terminal, stop_called>>

\* line 26, and the next char of line 21
SpinSleep ==
    /\ spin_pc = "sleep"
    /\ IF char_at < Len(SpinnerChars)
       THEN /\ char_at' = char_at + 1
            /\ spin_pc' = "write"
       ELSE /\ spin_pc' = "while"
            /\ UNCHANGED char_at
    /\ UNCHANGED <<not_spinner, main_pc, s3_profiles, profile_at, spinner_running,
                   spinner_thread, terminal, stop_called>>

NextSpinner ==
    \/ SpinnerStart
    \/ ProcessProfile
    \/ StopClearsRunning
    \/ StopJoins
    \/ StopWritesDone
    \/ SpinWhile
    \/ SpinWrite
    \/ SpinCheck
    \/ SpinSleep

SpecSpinner == InitSpinner /\ [][NextSpinner]_vars

IsDoneLine(n) == terminal[n] = "\rDone!           \n"

\* main is over: it returned, or an exception left it
MainEnded == main_pc \in {"returned", "raised"}

\* What holds of Spinner.stop: when it has returned, the spinner thread has ended,
\* and "Done!" is the last thing written.
StopJoinsSpinner ==
    main_pc = "returned" =>
        /\ stop_called
        /\ spin_pc = "exited"
        /\ terminal # <<>> /\ IsDoneLine(Len(terminal))
        /\ \A n \in 1..(Len(terminal) - 1) : ~IsDoneLine(n)

\* C16: in every execution of main, whether profile processing completes or raises,
\* Spinner.stop has been called when main is over; and once stop has returned the
\* spinner thread has ended and nothing is written after "Done!".
C16_SpinnerAlwaysStopped ==
    /\ MainEnded => stop_called
    /\ StopJoinsSpinner

\* An exception has left main while the spinner thread spins
C16_Witness ==
    /\ main_pc = "raised"
    /\ spinner_running
    /\ spin_pc \in {"write", "check", "sleep"}
    /\ terminal # <<>>

----------------------------------------------------------------------------
(* export_reserved_instances.py: the profile loop, the region loop and the sheets *)

MaxExportProfiles == 2

ProfileNames == <<"default", "dev", "prod", "test">>

\* describe_regions: the regions every account is offered
ExportRegions == <<"r1", "r2">>

\* What a region answers: an error raised inside the try of line 44 by one of the
\* calls of lines 46-52, or its reserved instances
RegionAnswers ==
    { [fails |-> TRUE,  reserved |-> 0],
      [fails |-> FALSE, reserved |-> 1],
      [fails |-> FALSE, reserved |-> 2] }

\* What a profile answers: get_caller_identity fails, describe_regions fails, or
\* each region answers
ProfileAnswers ==
    { [sts_fails |-> TRUE,  regions_fail |-> FALSE,
       answers |-> [i \in 1..Len(ExportRegions) |-> [fails |-> TRUE, reserved |-> 0]]],
      [sts_fails |-> FALSE, regions_fail |-> TRUE,
       answers |-> [i \in 1..Len(ExportRegions) |-> [fails |-> TRUE, reserved |-> 0]]] }
    \cup
    { [sts_fails |-> FALSE, regions_fail |-> FALSE, answers |-> answers] :
        answers \in [1..Len(ExportRegions) -> RegionAnswers] }

\* lines 76-87: the rows of the reserved instances of a region, in the order of the
\* response
ExportRows(profile_n, region_n) ==
    [k \in 1..exp_profiles[profile_n].answers[region_n].reserved |->
        [Region |-> ExportRegions[region_n],
         AccountId |-> "account of " \o ProfileNames[profile_n],
         ReservationId |-> k]]

\* lines 9-16: the profiles, the writer and all_data = []
InitExport ==
    /\ exp_pc = "profile"
    /\ exp_profiles \in BoundedSeq(ProfileAnswers, MaxExportProfiles)
    /\ exp_at = 1
    /\ region_at = 0
    /\ exp_data = <<>>
    /\ all_data = <<>>
    /\ sheets = <<>>
    /\ ScriptIdle
    /\ RunsIdle
    /\ ExposedIdle
    /\ NaclIdle
    /\ SpinnerIdle

\* lines 19-28: the session, the sts client and the account id of the next profile
GetCallerIdentity ==
    /\ exp_pc = "profile"
    /\ exp_at <= Len(exp_profiles)
    /\ IF exp_profiles[exp_at].sts_fails
       THEN /\ exp_at' = exp_at + 1
            /\ UNCHANGED exp_pc
       ELSE /\ exp_pc' = "regions"
            /\ UNCHANGED exp_at
    /\ UNCHANGED <<not_export, exp_profiles, region_at, exp_data, all_data, sheets>>

\* lines 31-39
DescribeRegions ==
    /\ exp_pc = "regions"
    /\ IF exp_profiles[exp_at].regions_fail
       THEN /\ exp_at' = exp_at + 1
            /\ exp_pc' = "profile"
            /\ UNCHANGED <<region_at, exp_data>>
       ELSE /\ exp_data' = <<>>
            /\ region_at' = 1
            /\ exp_pc' = "region"
            /\ UNCHANGED exp_at
    /\ UNCHANGED <<not_export, exp_profiles, all_data, sheets>>

\* a failing region ends the region loop of its profile
FetchRegionOrStop ==
    /\ exp_pc = "region"
    /\ region_at <= Len(ExportRegions)
    /\ IF exp_profiles[exp_at].answers[region_at].fails
       THEN /\ region_at' = Len(ExportRegions) + 1
            /\ UNCHANGED exp_data
       ELSE /\ exp_data' = exp_data \o ExportRows(exp_at, region_at)
            /\ region_at' = region_at + 1
    /\ UNCHANGED <<not_export, exp_pc, exp_profiles, exp_at, all_data, sheets>>

\* lines 41-90, one iteration
FetchRegion ==
    /\ exp_pc = "region"
    /\ region_at <= Len(ExportRegions)
    /\ IF exp_profiles[exp_at].answers[region_at].fails
       THEN UNCHANGED exp_data
       ELSE exp_data' = exp_data \o ExportRows(exp_at, region_at)
    /\ region_at' = region_at + 1
    /\ UNCHANGED <<not_export, exp_pc, exp_profiles, exp_at, all_data, sheets>>

\* lines 93-99
WriteSheet ==
    /\ exp_pc = "region"
    /\ region_at > Len(ExportRegions)
    /\ sheets' = Append(sheets, [name |-> ProfileNames[exp_at], rows |-> exp_data])
    /\ all_data' = all_data \o exp_data
    /\ exp_at' = exp_at + 1
    /\ exp_pc' = "profile"
    /\ UNCHANGED <<not_export, exp_profiles, region_at, exp_data>>

\* lines 102-105
WriteAllProfiles ==
    /\ exp_pc = "profile"
    /\ exp_at > Len(exp_profiles)
    /\ sheets' = Append(sheets, [name |-> "All Profiles", rows |-> all_data])
    /\ exp_pc' = "done"
    /\ UNCHANGED <<not_export, exp_profiles, exp_at, region_at, exp_data, all_data>>

NextExport ==
    \/ GetCallerIdentity
    \/ DescribeRegions
    \/ FetchRegion
    \/ WriteSheet
    \/ WriteAllProfiles

SpecExport == InitExport /\ [][NextExport]_vars

\* the profile's account id or region lookup fails
LookupFails(n) == exp_profiles[n].sts_fails \/ exp_profiles[n].regions_fail

\* the sheets written with the given name
SheetsNamed(name) == {i \in 1..Len(sheets) : sheets[i].name = name}

\* the rows of a sheet that are of the given region
RowsOfRegion(rows, region) ==
    LET OfRegion(row) == row.Region = region IN SelectSeq(rows, OfRegion)

RECURSIVE ConcatRows(_)
\* the rows of a list of sheets, one sheet after the other
ConcatRows(list) == IF list = <<>> THEN <<>> ELSE list[1].rows \o ConcatRows(Tail(list))

\* the profiles that get a sheet, in profile order
SheetProfiles ==
    LET HasSheet(n) == ~LookupFails(n)
    IN  SelectSeq([n \in 1..Len(exp_profiles) |-> n], HasSheet)

\* C17: when the script has written its last sheet, a profile whose account-id or
\* region lookup failed has no sheet and no row in "All Profiles", every other
\* profile, later ones included, has its sheet, in profile order; in a profile's
\* sheet a region whose fetch failed has no row and every other region has the rows
\* of its reserved instances; and the rows of "All Profiles" are the rows of the
\* per-profile sheets, one sheet after the other in profile order.
C17_FailuresConfined ==
    exp_pc = "done" =>
        LET all == sheets[Len(sheets)]
            per_profile == SubSeq(sheets, 1, Len(sheets) - 1)
        IN  /\ all.name = "All Profiles"
            /\ [i \in 1..Len(per_profile) |-> per_profile[i].name] =
                 [i \in 1..Len(SheetProfiles) |-> ProfileNames[SheetProfiles[i]]]
            /\ \A n \in 1..Len(exp_profiles) :
                  LookupFails(n) =>
                      /\ SheetsNamed(ProfileNames[n]) = {}
                      /\ \A i \in 1..Len(all.rows) :
                            all.rows[i].AccountId # "account of " \o ProfileNames[n]
            /\ \A i \in 1..Len(per_profile) :
                  \A r \in 1..Len(ExportRegions) :
                      RowsOfRegion(per_profile[i].rows, ExportRegions[r]) =
                          IF exp_profiles[SheetProfiles[i]].answers[r].fails
                          THEN <<>>
                          ELSE ExportRows(SheetProfiles[i], r)
            /\ all.rows = ConcatRows(per_profile)

\* The script has ended after a profile whose lookup failed was followed by a
\* profile whose first region failed and whose second region has reserved instances
C17_Witness ==
    /\ exp_pc = "done"
    /\ Len(exp_profiles) = 2
    /\ LookupFails(1)
    /\ ~LookupFails(2)
    /\ exp_profiles[2].answers[1].fails
    /\ ~exp_profiles[2].answers[2].fails
    /\ Len(sheets) = 2
    /\ sheets[2].rows # <<>>

====
